---- MODULE Spec2Model ----
(***************************************************************************)
(* Model of src/data_cleaner.py: assess_data_quality and clean_data.        *)
(*                                                                         *)
(* A table is a record [cols, dtypes, rows]; a cell is a record            *)
(* [k, n, d, s]: k is "null" (NaN / None / NaT), "num" (the rational n/d,  *)
(* d > 0, in lowest terms), "str" (the string s) or "date" (the calendar   *)
(* day n = yyyymmdd).  Floating point is modelled by exact rationals.      *)
(*                                                                         *)
(* The pandas calls are modelled with the semantics of pandas without      *)
(* copy-on-write (the versions for which the chained                       *)
(* df[col].fillna(..., inplace=True) of lines 37-43 updates df).           *)
(***************************************************************************)
EXTENDS Integers, Sequences, FiniteSets, TLC

\* Largest number of rows of the enumerated input tables.
MaxRows == 3

-----------------------------------------------------------------------------
(* Cells *)

Null == [k |-> "null", n |-> 0, d |-> 1, s |-> ""]
Str(x) == [k |-> "str", n |-> 0, d |-> 1, s |-> x]
Date(x) == [k |-> "date", n |-> x, d |-> 1, s |-> ""]

Abs(x) == IF x < 0 THEN -x ELSE x

RECURSIVE Gcd(_, _)
Gcd(a, b) == IF b = 0 THEN a ELSE Gcd(b, a % b)

\* The number n/d (d # 0) in lowest terms with a positive denominator.
Num(n, d) ==
    LET g == Gcd(Abs(n), Abs(d))
        sg == IF d < 0 THEN -1 ELSE 1
    IN [k |-> "num", n |-> sg * (n \div g), d |-> sg * (d \div g), s |-> ""]

Whole(n) == Num(n, 1)

RAdd(a, b) == Num(a.n * b.d + b.n * a.d, a.d * b.d)
RSub(a, b) == Num(a.n * b.d - b.n * a.d, a.d * b.d)
RMul(a, b) == Num(a.n * b.n, a.d * b.d)
RLe(a, b) == a.n * b.d <= b.n * a.d

isnull(c) == c.k = "null"

-----------------------------------------------------------------------------
(* Sequence helpers *)

RECURSIVE SumSeq(_)
SumSeq(s) == IF s = <<>> THEN 0 ELSE Head(s) + SumSeq(Tail(s))

RECURSIVE RSum(_)
RSum(s) == IF s = <<>> THEN Whole(0) ELSE RAdd(Head(s), RSum(Tail(s)))

\* The subsequence of s at the positions i with keep[i].
RECURSIVE Pick(_, _)
Pick(s, keep) ==
    IF s = <<>> THEN <<>>
    ELSE (IF Head(keep) THEN <<Head(s)>> ELSE <<>>) \o Pick(Tail(s), Tail(keep))

Count(keep) == Cardinality({i \in DOMAIN keep : keep[i]})

\* The order of Python's str comparison on the strings of the model.
StrOrder == <<"2021-01-01", "LA", "NY", "Unknown", "not-a-date">>
StrRank(x) == CHOOSE i \in DOMAIN StrOrder : StrOrder[i] = x

\* a <= b for two non-null cells of one column.
CellLe(a, b) ==
    IF a.k = "str" THEN StrRank(a.s) <= StrRank(b.s) ELSE RLe(a, b)

RECURSIVE Insert(_, _)
Insert(x, s) ==
    IF s = <<>> THEN <<x>>
    ELSE IF CellLe(x, Head(s)) THEN <<x>> \o s
    ELSE <<Head(s)>> \o Insert(x, Tail(s))

RECURSIVE Sorted(_)
Sorted(s) == IF s = <<>> THEN <<>> ELSE Insert(Head(s), Sorted(Tail(s)))

-----------------------------------------------------------------------------
(* pandas Series / DataFrame operations used by the source *)

NCols(t) == Len(t.cols)
NRows(t) == Len(t.rows)

\* df[col]
Column(t, c) == [i \in 1..NRows(t) |-> t.rows[i][c]]

\* The non-missing values of a column (skipna / dropna).
Present(col) == SelectSeq(col, LAMBDA v : ~isnull(v))

\* df[col].isnull().sum()
NullCount(col) == Count([i \in DOMAIN col |-> isnull(col[i])])

\* df.isnull().sum().to_dict()
MissingValues(t) == [c \in 1..NCols(t) |-> NullCount(Column(t, c))]

\* df.isnull().sum().sum()
TotalMissing(t) == SumSeq(MissingValues(t))

\* df.duplicated(): row i repeats an earlier row (missing equals missing).
duplicated(rows) ==
    [i \in DOMAIN rows |-> \E j \in 1..(i - 1) : rows[j] = rows[i]]

\* df.duplicated().sum()
DuplicateRows(t) == Count(duplicated(t.rows))

\* df.shape
Shape(t) == <<NRows(t), NCols(t)>>

\* Variant of drop_duplicates with keep = 'last' (sensitivity of C7).
drop_duplicates_last(t) ==
    LET later == [i \in DOMAIN t.rows |->
                     \E j \in (i + 1)..Len(t.rows) : t.rows[j] = t.rows[i]]
    IN [t EXCEPT !.rows = Pick(t.rows, [i \in DOMAIN later |-> ~later[i]])]

\* df.drop_duplicates(): keep = 'first'.
drop_duplicates(t) ==
    LET dup == duplicated(t.rows)
    IN [t EXCEPT !.rows = Pick(t.rows, [i \in DOMAIN dup |-> ~dup[i]])]

\* Series.mean(): NaN for no values.
mean(col) ==
    LET p == Present(col)
    IN IF p = <<>> THEN Null ELSE RMul(RSum(p), Num(1, Len(p)))

\* Series.quantile(q) for q = qn/4, linear interpolation on the sorted
\* non-missing values; NaN for no values.
quantile(col, qn) ==
    LET p == Sorted(Present(col))
        n == Len(p)
        pos4 == qn * (n - 1)
        lo == (pos4 \div 4) + 1
        fr == pos4 % 4
    IN IF n = 0 THEN Null
       ELSE IF fr = 0 THEN p[lo]
       ELSE RAdd(p[lo], RMul(Num(fr, 4), RSub(p[lo + 1], p[lo])))

\* Series.median()
median(col) == quantile(col, 2)

\* Series.mode(): the most frequent non-missing values, sorted; every value
\* when none repeats; empty only when there is no non-missing value.
mode(col) ==
    LET p == Present(col)
        cnt(v) == Cardinality({i \in DOMAIN p : p[i] = v})
        best == {p[i] : i \in {j \in DOMAIN p :
                     \A h \in DOMAIN p : cnt(p[h]) <= cnt(p[j])}}
        first == {i \in DOMAIN p : \A j \in 1..(i - 1) : p[j] # p[i]}
    IN Sorted(SelectSeq(Pick(p, [i \in DOMAIN p |-> i \in first]),
                        LAMBDA v : v \in best))

\* Series.fillna(value): a missing value (NaN) as the fill value fills nothing.
fillna(col, value) ==
    [i \in DOMAIN col |-> IF isnull(col[i]) THEN value ELSE col[i]]

\* df[col] = values
SetColumn(t, c, col, dtype) ==
    [t EXCEPT !.rows = [i \in DOMAIN t.rows |-> [t.rows[i] EXCEPT ![c] = col[i]]],
              !.dtypes[c] = dtype]

\* The generic date parser on one string: the day it denotes, or "error".
ParseString(x) ==
    IF x = "2021-01-01" THEN Date(20210101) ELSE [Null EXCEPT !.k = "error"]

\* pd.to_datetime on one value: None becomes NaT.
ParseValue(v) == IF isnull(v) THEN Null ELSE ParseString(v.s)

\* Variant of to_datetime with errors = 'coerce': a value that does not parse
\* becomes NaT and nothing is raised (sensitivity of C4).
to_datetime_coerce(col) ==
    [ok |-> TRUE,
     values |-> [i \in DOMAIN col |->
                    IF ParseValue(col[i]).k = "error" THEN Null ELSE ParseValue(col[i])]]

\* pd.to_datetime(df[col]): the parsed column, raising (ok = FALSE) when a
\* value does not parse.
to_datetime(col) ==
    LET out == [i \in DOMAIN col |-> ParseValue(col[i])]
    IN [ok |-> \A i \in DOMAIN out : out[i].k # "error", values |-> out]

\* df.select_dtypes(include=['number']).columns
IsNumber(dtype) == dtype \in {"int64", "float64"}
NumberColumns(t) ==
    SelectSeq([c \in 1..NCols(t) |-> c], LAMBDA c : IsNumber(t.dtypes[c]))

-----------------------------------------------------------------------------
(* assess_data_quality *)

\* Lines 8-17.  'Numeric Stats' (line 16, df.describe()) is left out: no
\* property below reads it.

assess_data_quality(t) ==
    [TotalRows |-> NRows(t),
     TotalColumns |-> NCols(t),
     MissingValues |-> MissingValues(t),
     DuplicateRows |-> DuplicateRows(t),
     DataTypes |-> t.dtypes]

-----------------------------------------------------------------------------
(* Inputs *)

Table(cols, dtypes, rows) == [cols |-> cols, dtypes |-> dtypes, rows |-> rows]

\* Every table of at most MaxRows rows drawn from the given rows.
TablesOver(cols, dtypes, rowset) ==
    {Table(cols, dtypes, r) : r \in UNION {[1..n -> rowset] : n \in 0..MaxRows}}

D1 == Str("2021-01-01")
Bad == Str("not-a-date")

Mixed ==
    TablesOver(<<"amount", "when">>, <<"float64", "object">>,
               {<<Whole(25), D1>>, <<Null, D1>>, <<Null, Null>>,
                <<Whole(40), Bad>>, <<Whole(25), Null>>})

TwoNumbers ==
    TablesOver(<<"x", "y">>, <<"float64", "float64">>,
               {<<Whole(1), Whole(1)>>, <<Whole(100), Whole(1)>>, <<Null, Whole(1)>>,
                <<Whole(1), Null>>, <<Whole(1), Whole(100)>>})

TwoStrings ==
    TablesOver(<<"start", "end">>, <<"object", "object">>,
               {<<D1, D1>>, <<Bad, D1>>, <<Null, D1>>, <<D1, Null>>, <<D1, Bad>>})

\* Section 8 of the specification, scenarios 1 to 4.
Scenario1 ==
    Table(<<"age", "city">>, <<"float64", "object">>,
          <<<<Whole(25), Str("NY")>>, <<Null, Str("LA")>>, <<Whole(25), Str("NY")>>>>)
Scenario2 ==
    Table(<<"col">>, <<"float64">>,
          <<<<Whole(10)>>, <<Whole(20)>>, <<Null>>, <<Whole(40)>>>>)
Scenario3 ==
    Table(<<"value">>, <<"int64">>,
          <<<<Whole(1)>>, <<Whole(2)>>, <<Whole(3)>>, <<Whole(4)>>, <<Whole(100)>>>>)
Scenario4 == Table(<<"when">>, <<"object">>, <<<<D1>>, <<Bad>>>>)

\* Two numeric columns where the second column's quartiles depend on the
\* rows the first column's filter removed.
Successive ==
    Table(<<"x", "y">>, <<"int64", "int64">>,
          <<<<Whole(1), Whole(1)>>, <<Whole(1), Whole(1)>>, <<Whole(1), Whole(1)>>,
            <<Whole(1), Whole(100)>>, <<Whole(100), Whole(100)>>>>)

InputTables ==
    Mixed \cup TwoNumbers \cup TwoStrings
        \cup {Scenario1, Scenario2, Scenario3, Scenario4, Successive}

\* The sidebar of lines 107-114: the fill method is None unless fill_missing
\* is ticked, the multiplier is 1.5 unless remove_outliers is ticked.
Threshold(n, d, text) == [n |-> n, d |-> d, text |-> text]
DefaultThreshold == Threshold(3, 2, "1.5")
Thresholds == {DefaultThreshold, Threshold(1, 1, "1.0")}
FillMethods == {"Mean", "Median", "Mode"}

Operations ==
    [remove_duplicates : BOOLEAN, fill_missing : BOOLEAN,
     convert_dates : BOOLEAN, remove_outliers : BOOLEAN]

-----------------------------------------------------------------------------
(* clean_data *)

VARIABLES
    given,               \* the table as it was when clean_data was called
    caller,              \* the table object the caller passed, as it is now
    df,                  \* the local df
    shared,              \* the local df is still the caller's object
    operations, fill_method, outlier_threshold,
    original_shape, original_missing, original_duplicates,
    changes,
    outliers_removed,
    pc,                  \* the step clean_data is at
    ci                   \* position of the running column loop

vars ==
    <<given, caller, df, shared, operations, fill_method, outlier_threshold,
      original_shape, original_missing, original_duplicates, changes,
      outliers_removed, pc, ci>>

config == <<operations, fill_method, outlier_threshold>>
originals == <<original_shape, original_missing, original_duplicates>>

Entry(kind, col, text) == [kind |-> kind, col |-> col, text |-> text]

ShapeText(sh) == "(" \o ToString(sh[1]) \o ", " \o ToString(sh[2]) \o ")"

\* In-place changes of df reach the caller's object while df is that object.
Seen(t) == IF shared THEN t ELSE caller

Init ==
    /\ given \in InputTables
    /\ caller = given
    /\ df = given
    /\ shared = TRUE
    /\ operations \in Operations
    /\ fill_method \in (IF operations.fill_missing THEN FillMethods ELSE {"None"})
    /\ outlier_threshold \in
           (IF operations.remove_outliers THEN Thresholds ELSE {DefaultThreshold})
    /\ original_shape = <<0, 0>>
    /\ original_missing = 0
    /\ original_duplicates = 0
    /\ changes = <<>>
    /\ outliers_removed = 0
    /\ pc = "start"
    /\ ci = 1

\* Lines 21-25.
Start ==
    /\ pc = "start"
    /\ original_shape' = Shape(df)
    /\ original_missing' = TotalMissing(df)
    /\ original_duplicates' = DuplicateRows(df)
    /\ changes' = <<>>
    /\ pc' = "remove_duplicates"
    /\ UNCHANGED <<given, caller, df, shared, config, outliers_removed, ci>>

DuplicatesText(n) == "Removed " \o ToString(n) \o " duplicate rows."

\* Variant of RemoveDuplicates that does not read the toggle (sensitivity
\* of C5).
RemoveDuplicatesAlways ==
    /\ pc = "remove_duplicates"
    /\ df' = drop_duplicates(df)
    /\ shared' = FALSE
    /\ changes' =
           IF NRows(df') < original_shape[1]
           THEN Append(changes, Entry("duplicates", 0, DuplicatesText(original_duplicates)))
           ELSE changes
    /\ pc' = "fill_missing"
    /\ ci' = 1
    /\ UNCHANGED <<given, caller, config, originals, outliers_removed>>

\* Lines 27-30.
RemoveDuplicates ==
    /\ pc = "remove_duplicates"
    /\ IF operations.remove_duplicates
       THEN LET out == drop_duplicates(df)
            IN /\ df' = out
               /\ shared' = FALSE
               /\ changes' =
                      IF NRows(out) < original_shape[1]
                      THEN Append(changes,
                               Entry("duplicates", 0, DuplicatesText(original_duplicates)))
                      ELSE changes
       ELSE UNCHANGED <<df, shared, changes>>
    /\ pc' = "fill_missing"
    /\ ci' = 1
    /\ UNCHANGED <<given, caller, config, originals, outliers_removed>>

\* Variant of FillValue without the 'Unknown' fallback of line 43
\* (sensitivity of C2).
FillValueNoUnknown(col, dtype, method) ==
    IF dtype \in {"int64", "float64"}
    THEN CASE method = "Mean" -> mean(col)
           [] method = "Median" -> median(col)
           [] method = "Mode" -> IF mode(col) # <<>> THEN mode(col)[1] ELSE Whole(0)
           [] OTHER -> Null
    ELSE IF mode(col) # <<>> THEN mode(col)[1] ELSE Null

\* Variant of FillValue that takes the last of the tied modes on line 41
\* (sensitivity of C8).
FillValueLastMode(col, dtype, method) ==
    IF dtype \in {"int64", "float64"}
    THEN CASE method = "Mean" -> mean(col)
           [] method = "Median" -> median(col)
           [] method = "Mode" ->
                  IF mode(col) # <<>> THEN mode(col)[Len(mode(col))] ELSE Whole(0)
           [] OTHER -> Null
    ELSE IF mode(col) # <<>> THEN mode(col)[1] ELSE Str("Unknown")

\* Lines 35-43: the value handed to fillna.
FillValue(col, dtype, method) ==
    IF dtype \in {"int64", "float64"}
    THEN CASE method = "Mean" -> mean(col)
           [] method = "Median" -> median(col)
           [] method = "Mode" -> IF mode(col) # <<>> THEN mode(col)[1] ELSE Whole(0)
           [] OTHER -> Null
    ELSE IF mode(col) # <<>> THEN mode(col)[1] ELSE Str("Unknown")

FilledText(n, name, method) ==
    "Filled " \o ToString(n) \o " missing values in '" \o name \o "' using "
        \o method \o "."

\* Lines 33-46, one column of the loop.
FillMissing ==
    /\ pc = "fill_missing"
    /\ operations.fill_missing
    /\ ci <= NCols(df)
    /\ LET col == Column(df, ci)
           missing_before == NullCount(col)
           filled == fillna(col, FillValue(col, df.dtypes[ci], fill_method))
           missing_after == NullCount(filled)
           out == SetColumn(df, ci, filled, df.dtypes[ci])
       IN /\ df' = out
          /\ caller' = Seen(out)
          /\ changes' =
                 IF missing_before > missing_after
                 THEN Append(changes,
                          Entry("filled", ci,
                                FilledText(missing_before - missing_after,
                                           df.cols[ci], fill_method)))
                 ELSE changes
    /\ ci' = ci + 1
    /\ UNCHANGED <<given, shared, config, originals, outliers_removed, pc>>

\* Line 32 false, or the loop of line 33 is over.
FillMissingDone ==
    /\ pc = "fill_missing"
    /\ ~operations.fill_missing \/ ci > NCols(df)
    /\ pc' = "convert_dates"
    /\ ci' = 1
    /\ UNCHANGED <<given, caller, df, shared, config, originals, changes,
                   outliers_removed>>

ConvertedText(name) == "Converted '" \o name \o "' to datetime."

\* Lines 49-55, one column of the loop.
ConvertDates ==
    /\ pc = "convert_dates"
    /\ operations.convert_dates
    /\ ci <= NCols(df)
    /\ LET parsed == to_datetime(Column(df, ci))
           out == SetColumn(df, ci, parsed.values, "datetime64[ns]")
       IN IF df.dtypes[ci] = "object" /\ parsed.ok
          THEN /\ df' = out
               /\ caller' = Seen(out)
               /\ changes' = Append(changes,
                                 Entry("converted", ci, ConvertedText(df.cols[ci])))
          ELSE UNCHANGED <<df, caller, changes>>
    /\ ci' = ci + 1
    /\ UNCHANGED <<given, shared, config, originals, outliers_removed, pc>>

\* Line 48 false, or the loop of line 49 is over.
ConvertDatesDone ==
    /\ pc = "convert_dates"
    /\ ~operations.convert_dates \/ ci > NCols(df)
    /\ pc' = "remove_outliers"
    /\ ci' = 1
    /\ outliers_removed' = 0
    /\ UNCHANGED <<given, caller, df, shared, config, originals, changes>>

\* Arithmetic and comparison with NaN: NaN propagates, comparisons are false.
NSub(a, b) == IF isnull(a) \/ isnull(b) THEN Null ELSE RSub(a, b)
NAdd(a, b) == IF isnull(a) \/ isnull(b) THEN Null ELSE RAdd(a, b)
NMul(a, b) == IF isnull(a) \/ isnull(b) THEN Null ELSE RMul(a, b)
\* Variant of NLe in which a comparison with NaN is true (sensitivity of C10).
NLeMissingPasses(a, b) == isnull(a) \/ isnull(b) \/ RLe(a, b)

NLe(a, b) == ~isnull(a) /\ ~isnull(b) /\ RLe(a, b)

\* Lines 60-64.
Bounds(col, k) ==
    LET Q1 == quantile(col, 1)
        Q3 == quantile(col, 3)
        IQR == NSub(Q3, Q1)
    IN [lower |-> NSub(Q1, NMul(Num(k.n, k.d), IQR)),
        upper |-> NAdd(Q3, NMul(Num(k.n, k.d), IQR))]

\* Variant of WithinBounds that takes the quartiles from the table as it was
\* given instead of the current df (sensitivity of C9).
WithinBoundsOfGiven(t, c, k) ==
    LET col == Column(t, c)
        b == Bounds(Column(given, c), k)
    IN [t EXCEPT !.rows =
            Pick(t.rows, [i \in DOMAIN col |-> NLe(b.lower, col[i]) /\ NLe(col[i], b.upper)])]

\* Line 66: df[(df[col] >= lower_bound) & (df[col] <= upper_bound)]
WithinBounds(t, c, k) ==
    LET col == Column(t, c)
        b == Bounds(col, k)
    IN [t EXCEPT !.rows =
            Pick(t.rows, [i \in DOMAIN col |-> NLe(b.lower, col[i]) /\ NLe(col[i], b.upper)])]

\* Lines 59-67, one column of the loop.  The filter selects rows and leaves
\* the dtypes alone, so the columns of line 59 are the numeric columns of df.
RemoveOutliers ==
    /\ pc = "remove_outliers"
    /\ operations.remove_outliers
    /\ ci <= Len(NumberColumns(df))
    /\ LET before_count == NRows(df)
           out == WithinBounds(df, NumberColumns(df)[ci], outlier_threshold)
       IN /\ df' = out
          /\ outliers_removed' = outliers_removed + (before_count - NRows(out))
    /\ shared' = FALSE
    /\ ci' = ci + 1
    /\ UNCHANGED <<given, caller, config, originals, changes, pc>>

OutliersText(n, k) ==
    "Removed " \o ToString(n) \o " outlier rows across numeric columns (IQR with multiplier "
        \o k.text \o ")."

\* Line 57 false, or the loop of line 59 is over: lines 68-69.
RemoveOutliersDone ==
    /\ pc = "remove_outliers"
    /\ ~operations.remove_outliers \/ ci > Len(NumberColumns(df))
    /\ changes' =
           IF operations.remove_outliers /\ outliers_removed > 0
           THEN Append(changes,
                    Entry("outliers", 0, OutliersText(outliers_removed, outlier_threshold)))
           ELSE changes
    /\ pc' = "summary"
    /\ UNCHANGED <<given, caller, df, shared, config, originals, outliers_removed, ci>>

ShapeChangedText(a, b) ==
    "Shape changed from " \o ShapeText(a) \o " to " \o ShapeText(b) \o "."
MissingReducedText(a, b) ==
    "Total missing values reduced from " \o ToString(a) \o " to " \o ToString(b) \o "."

\* Variant of Summary that logs the missing-values entry before the shape
\* entry (sensitivity of C6).
SummaryMissingFirst ==
    /\ pc = "summary"
    /\ LET final_shape == Shape(df)
           final_missing == TotalMissing(df)
           c1 == IF final_missing < original_missing
                 THEN Append(changes, Entry("missing", 0,
                                  MissingReducedText(original_missing, final_missing)))
                 ELSE changes
       IN changes' =
              IF final_shape # original_shape
              THEN Append(c1, Entry("shape", 0,
                                    ShapeChangedText(original_shape, final_shape)))
              ELSE c1
    /\ pc' = "done"
    /\ UNCHANGED <<given, caller, df, shared, config, originals, outliers_removed, ci>>

\* Lines 71-78.
Summary ==
    /\ pc = "summary"
    /\ LET final_shape == Shape(df)
           final_missing == TotalMissing(df)
           c1 == IF final_shape # original_shape
                 THEN Append(changes,
                          Entry("shape", 0, ShapeChangedText(original_shape, final_shape)))
                 ELSE changes
       IN changes' =
              IF final_missing < original_missing
              THEN Append(c1, Entry("missing", 0,
                                    MissingReducedText(original_missing, final_missing)))
              ELSE c1
    /\ pc' = "done"
    /\ UNCHANGED <<given, caller, df, shared, config, originals, outliers_removed, ci>>

Next ==
    \/ Start
    \/ RemoveDuplicates
    \/ FillMissing
    \/ FillMissingDone
    \/ ConvertDates
    \/ ConvertDatesDone
    \/ RemoveOutliers
    \/ RemoveOutliersDone
    \/ Summary

Spec == Init /\ [][Next]_vars

-----------------------------------------------------------------------------
(* Properties *)

Done == pc = "done"
Kinds == {changes[i].kind : i \in DOMAIN changes}
EntriesOf(kind, c) == {i \in DOMAIN changes : changes[i].kind = kind /\ changes[i].col = c}
AllMissing(t, c) == NRows(t) > 0 /\ \A i \in 1..NRows(t) : isnull(t.rows[i][c])
SomeMissing(t, c) == \E i \in 1..NRows(t) : isnull(t.rows[i][c])

\* C1: when clean_data has returned, the table object it was given has the
\* rows, cell values and column types it had at the call.
C1_InputNeverMutated == Done => caller = given

\* C2 as stated: with fill_missing enabled the returned table has zero
\* missing values in every numeric or categorical column, whatever the table
\* and the fill method.
C2_NoMissingAfterFill ==
    (Done /\ operations.fill_missing) =>
        \A c \in 1..NCols(df) :
            df.dtypes[c] \in {"int64", "float64", "object"}
                => assess_data_quality(df).MissingValues[c] = 0

\* C2 amended: with fill_missing enabled the returned table has zero missing
\* values in every categorical column and in every numeric column, except a
\* numeric column that was entirely missing and is filled by Mean or Median.
C2_NoMissingUnlessMeanOfNothing ==
    (Done /\ operations.fill_missing) =>
        \A c \in 1..NCols(df) :
            df.dtypes[c] \in {"int64", "float64", "object"}
                => \/ assess_data_quality(df).MissingValues[c] = 0
                   \/ /\ df.dtypes[c] \in {"int64", "float64"}
                      /\ fill_method \in {"Mean", "Median"}
                      /\ AllMissing(given, c)

C2_Witness ==
    /\ Done
    /\ operations.fill_missing
    /\ NRows(df) > 0
    /\ \E c \in 1..NCols(df) : given.dtypes[c] = "float64" /\ SomeMissing(given, c)
    /\ \E c \in 1..NCols(df) : df.dtypes[c] = "object" /\ AllMissing(given, c)
    /\ \A c \in 1..NCols(df) : assess_data_quality(df).MissingValues[c] = 0

\* C3: for a table of zero rows clean_data returns the same table, column
\* types unchanged, and an empty change log, whatever the configuration.
C3_EmptyTableUnchanged ==
    (Done /\ NRows(given) = 0) => (df = given /\ changes = <<>>)

Parses(v) == isnull(v) \/ ParseString(v.s).k = "date"

\* C4: a step of the convert_dates loop either replaces the whole of an object
\* column by its parsed dates and logs one entry for it, when every value
\* parses, or leaves the table and the log as they are; either way the loop
\* goes on to the next column.
C4_DateConversionAllOrNothing ==
    [][(pc = "convert_dates" /\ operations.convert_dates /\ ci <= NCols(df)) =>
          LET col == Column(df, ci)
              all == \A i \in DOMAIN col : Parses(col[i])
          IN /\ pc' = "convert_dates" /\ ci' = ci + 1
             /\ IF df.dtypes[ci] = "object" /\ all
                THEN /\ df'.dtypes = [df.dtypes EXCEPT ![ci] = "datetime64[ns]"]
                     /\ \A i \in 1..NRows(df) :
                            /\ df'.rows[i][ci].k \in {"date", "null"}
                            /\ \A c \in 1..NCols(df) : c # ci => df'.rows[i][c] = df.rows[i][c]
                     /\ NRows(df') = NRows(df)
                     /\ changes' = Append(changes,
                            Entry("converted", ci,
                                  "Converted '" \o df.cols[ci] \o "' to datetime."))
                ELSE df' = df /\ changes' = changes]_vars

\* The first column held a value that does not parse and was skipped, the
\* second column was converted after it.
C4_Witness ==
    /\ pc = "convert_dates" /\ ci = 3
    /\ df.dtypes = <<"object", "datetime64[ns]">>
    /\ \E i \in 1..NRows(df) : df.rows[i][1] = Bad
    /\ EntriesOf("converted", 1) = {} /\ EntriesOf("converted", 2) # {}

\* C5: the returned table has at most as many rows as the given one, and
\* exactly as many when neither remove_duplicates nor remove_outliers is on.
C5_RowCountMonotone ==
    Done => /\ NRows(df) <= NRows(given)
            /\ (~operations.remove_duplicates /\ ~operations.remove_outliers)
                   => NRows(df) = NRows(given)

C5_Witness ==
    /\ Done
    /\ operations.fill_missing /\ operations.convert_dates
    /\ operations.remove_duplicates /\ operations.remove_outliers
    /\ 0 < NRows(df) /\ NRows(df) < NRows(given)

KindOrder == <<"duplicates", "filled", "converted", "outliers", "shape", "missing">>
KindRank(kind) == CHOOSE i \in DOMAIN KindOrder : KindOrder[i] = kind

\* C6: the change log is ordered: the duplicates entry, the fill entries in
\* column order, the conversion entries in column order, the outlier entry,
\* the shape entry, the missing-values entry, each of the four single
\* entries at most once.
C6_LogOrdered ==
    \A i, j \in DOMAIN changes :
        i < j =>
            \/ KindRank(changes[i].kind) < KindRank(changes[j].kind)
            \/ /\ changes[i].kind = changes[j].kind
               /\ changes[i].kind \in {"filled", "converted"}
               /\ changes[i].col < changes[j].col

C6_Witness == Done /\ Cardinality(Kinds) = 6

FirstAt(rows, r) == CHOOSE i \in DOMAIN rows : rows[i] = r /\ \A j \in 1..(i - 1) : rows[j] # r

\* C7: after the remove_duplicates step df holds each distinct row of the
\* given table once, in the order of the first occurrences, and the log has
\* "Removed N duplicate rows." with N the number of rows dropped, which is
\* the Duplicate Rows of the quality report, exactly when N > 0.
C7_DuplicatesRemoved ==
    (pc = "fill_missing" /\ ci = 1 /\ operations.remove_duplicates) =>
        LET N == NRows(given) - NRows(df)
        IN /\ {df.rows[i] : i \in DOMAIN df.rows} = {given.rows[i] : i \in DOMAIN given.rows}
           /\ \A a, b \in DOMAIN df.rows :
                  a < b => /\ df.rows[a] # df.rows[b]
                           /\ FirstAt(given.rows, df.rows[a]) < FirstAt(given.rows, df.rows[b])
           /\ N = assess_data_quality(given).DuplicateRows
           /\ changes = IF N > 0
                        THEN <<Entry("duplicates", 0,
                                     "Removed " \o ToString(N) \o " duplicate rows.")>>
                        ELSE <<>>

\* A repeated row was dropped from between two different rows.
C7_Witness ==
    /\ pc = "fill_missing" /\ ci = 1 /\ operations.remove_duplicates
    /\ NRows(given) = 3 /\ NRows(df) = 2
    /\ given.rows[1] = given.rows[3]
    /\ Len(changes) = 1

Distinct(p) == \A i, j \in DOMAIN p : i # j => p[i] # p[j]
ModeStep == pc = "fill_missing" /\ operations.fill_missing /\ ci <= NCols(df)
               /\ fill_method = "Mode" /\ df.dtypes[ci] \in {"int64", "float64"}

RowsBeforeOutliers ==
    IF operations.remove_duplicates
    THEN NRows(given) - DuplicateRows(given) ELSE NRows(given)

OutlierEntries == {i \in DOMAIN changes : changes[i].kind = "outliers"}

\* C9: each step of the remove_outliers loop takes the next numeric column,
\* computes Q1, Q3 and the IQR on the rows df holds then, and keeps exactly
\* the rows whose value lies in [Q1 - k*IQR, Q3 + k*IQR]; after the loop one
\* entry with the number of rows dropped over all columns and k is logged
\* exactly when that number is > 0; [1,2,3,4,100] with k = 1.5 loses the row
\* with 100 and logs 1 outlier row.
C9_OutliersColumnByColumn ==
    /\ [][(pc = "remove_outliers" /\ operations.remove_outliers
              /\ ci <= Len(NumberColumns(df))) =>
             LET c == NumberColumns(df)[ci]
                 col == Column(df, c)
                 k == Num(outlier_threshold.n, outlier_threshold.d)
                 Q1 == quantile(col, 1)
                 Q3 == quantile(col, 3)
                 inside(v) ==
                     /\ ~isnull(v)
                     /\ RLe(RSub(Q1, RMul(k, RSub(Q3, Q1))), v)
                     /\ RLe(v, RAdd(Q3, RMul(k, RSub(Q3, Q1))))
             IN /\ df'.rows = SelectSeq(df.rows, LAMBDA r : inside(r[c]))
                /\ df'.dtypes = df.dtypes
                /\ outliers_removed' = outliers_removed + (NRows(df) - NRows(df'))
                /\ ci' = ci + 1 /\ changes' = changes]_vars
    /\ []((pc \in {"summary", "done"} /\ operations.remove_outliers) =>
             LET total == RowsBeforeOutliers - NRows(df)
             IN IF total > 0
                THEN /\ Cardinality(OutlierEntries) = 1
                     /\ \A i \in OutlierEntries :
                            changes[i].text =
                                "Removed " \o ToString(total)
                                    \o " outlier rows across numeric columns (IQR with multiplier "
                                    \o outlier_threshold.text \o ")."
                ELSE OutlierEntries = {})
    /\ []((Done /\ given = Scenario3 /\ operations.remove_outliers
              /\ outlier_threshold = DefaultThreshold) =>
             /\ df.rows = <<<<Whole(1)>>, <<Whole(2)>>, <<Whole(3)>>, <<Whole(4)>>>>
             /\ changes[1].text =
                    "Removed 1 outlier rows across numeric columns (IQR with multiplier 1.5).")

\* The second column lost a row that is within the bounds of the given
\* table's second column: its quartiles were taken after the first filter.
C9_Witness ==
    /\ Done /\ given = Successive
    /\ ~operations.remove_duplicates /\ operations.remove_outliers
    /\ NRows(df) = 3
    /\ OutlierEntries # {}

MissingInNumber(r, t) == \E c \in 1..NCols(t) : IsNumber(t.dtypes[c]) /\ isnull(r[c])

\* C10: when remove_outliers is enabled the returned table has no missing
\* value in a numeric column, and, with fill_missing off, every row that had
\* one when the step began is among the rows counted as outliers.
C10_OutliersDropMissing ==
    (pc \in {"summary", "done"} /\ operations.remove_outliers) =>
        /\ \A i \in 1..NRows(df) : ~MissingInNumber(df.rows[i], df)
        /\ ~operations.fill_missing =>
               LET entered == IF operations.remove_duplicates
                              THEN drop_duplicates(given) ELSE given
               IN outliers_removed >=
                      Len(SelectSeq(entered.rows, LAMBDA r : MissingInNumber(r, given)))

\* Only remove_outliers is on and the log says the missing values went down.
C10_Witness ==
    /\ Done
    /\ operations = [remove_duplicates |-> FALSE, fill_missing |-> FALSE,
                     convert_dates |-> FALSE, remove_outliers |-> TRUE]
    /\ "missing" \in Kinds
    /\ NRows(df) > 0

====
